---- MODULE Spec2Model ----
(***************************************************************************)
(* Verification model of two parts of nGraph:                              *)
(*   - runtime::mlir::Compiler (one-time MLIR initialisation and the       *)
(*     linear lowering pipeline of compile()),                             *)
(*   - shape inference of the Broadcast operator family                    *)
(*     (op::v0::Broadcast, op::v0::BroadcastLike, op::v1::Broadcast,       *)
(*     op::v3::Broadcast).                                                 *)
(* SpecCompiler runs the first part; SpecBroadcast (v1/v3: construction,   *)
(* cloning, differentiation), SpecV0 and SpecLike run the second.          *)
(***************************************************************************)
EXTENDS Integers, Sequences, FiniteSets, TLC

VARIABLES
    \* ---- runtime::mlir::Compiler ----
    pc,             \* per thread: the statement it is about to execute
    mlirInitMutex,  \* owner of the static std::mutex of init(), 0 when free
    initialized,    \* static bool Compiler::initialized
    initRuns,       \* per step of the body of init(): how often it has run
    initCallStart,  \* per thread: value of `initialized` when its init() call began
    hasCompiler,    \* per thread: a Compiler object has been constructed
    m_module,       \* per thread: Compiler::m_module of its Compiler
    stages,         \* per thread: stages run by the current compile() call
    \* ---- op::v1::Broadcast / op::v3::Broadcast ----
    node,           \* the Broadcast node: version, spec and its three inputs
    out,            \* outcome of its last validate_and_infer_types()
    prev,           \* the inputs and outcome replaced by the last input rewrite
    cloned,         \* the node clone_with_new_inputs() built from it, and its outcome
    adjoints,       \* the adjoints map after generate_adjoints(), or its error
    \* ---- op::v0::Broadcast ----
    v0,             \* the v0 Broadcast node: input, attributes and outcome
    \* ---- op::v0::BroadcastLike ----
    like            \* the BroadcastLike node: inputs, attributes and outcome

compilerVars == <<pc, mlirInitMutex, initialized, initRuns, initCallStart,
                  hasCompiler, m_module, stages>>
broadcastVars == <<node, out, prev, cloned, adjoints>>
likeVars == <<like>>
v0Vars == <<v0>>
operatorVars == <<broadcastVars, likeVars, v0Vars>>
vars == <<compilerVars, broadcastVars, likeVars, v0Vars>>

-----------------------------------------------------------------------------
(* Bounds of the model *)

NumThreads == 2

Threads == 1..NumThreads

\* Largest rank of a tensor shape, and largest length of a shape or axes vector.
MaxRank == 2

\* The dimension lengths the shapes are built from.
DimValues == {1, 2, 3}

-----------------------------------------------------------------------------
(* runtime::mlir::Compiler *)

\* The three calls of the body of init(), in program order.
InitSteps == <<"initializeNGraphMLIR", "registerPassManagerCLOptions",
               "ParseEnvironmentOptions">>

InitStepPc == <<"init_ngraph", "init_clopts", "init_env">>

\* The stages of compile(), in program order.
StageOrder == <<"create", "convert", "verify_ng", "lower", "verify_llvm">>

\* The passes each PassManager of compile() is given with pm.addPass(), in
\* program order: the one of buildNgDialectModule() and the one of
\* optimizeNgDialect().
BuildPasses == <<"createNgDialectConversionPass">>

OptimizePasses == <<"createLowerToLLVMPass">>

\* The passes pm.run() runs in the stage: the list its PassManager was given.
PassesOf(stage) == IF stage = "convert" THEN BuildPasses ELSE OptimizePasses

NullModule == [form |-> "null", wellformed |-> FALSE, verified |-> FALSE]

\* No operator node exists while the compiler part runs.
NoNode == [kind |-> "none"]

OperatorIdle ==
    /\ node = NoNode
    /\ out = NoNode
    /\ prev = NoNode
    /\ cloned = NoNode
    /\ adjoints = NoNode
    /\ like = NoNode
    /\ v0 = NoNode

CompilerInit ==
    /\ pc = [t \in Threads |-> "idle"]
    /\ mlirInitMutex = 0
    /\ initialized = FALSE
    /\ initRuns = [i \in 1..Len(InitSteps) |-> 0]
    /\ initCallStart = [t \in Threads |-> FALSE]
    /\ hasCompiler = [t \in Threads |-> FALSE]
    /\ m_module = [t \in Threads |-> NullModule]
    /\ stages = [t \in Threads |-> << >>]
    /\ OperatorIdle

\* A caller enters Compiler::init().
init_call(t) ==
    /\ pc[t] = "idle"
    /\ pc' = [pc EXCEPT ![t] = "init_lock"]
    /\ initCallStart' = [initCallStart EXCEPT ![t] = initialized]
    /\ UNCHANGED operatorVars
    /\ UNCHANGED <<mlirInitMutex, initialized, initRuns, hasCompiler, m_module, stages>>

\* Mutant of init_lock: the lock is taken without waiting for its owner.
init_lock_NoExclusion(t) ==
    /\ pc[t] = "init_lock"
    /\ mlirInitMutex' = t
    /\ pc' = [pc EXCEPT ![t] = "init_check"]
    /\ UNCHANGED operatorVars
    /\ UNCHANGED <<initialized, initRuns, initCallStart, hasCompiler, m_module, stages>>

\* std::unique_lock<std::mutex> lock(mlirInitMutex): blocks while another
\* thread owns the mutex.
init_lock(t) ==
    /\ pc[t] = "init_lock"
    /\ mlirInitMutex = 0
    /\ mlirInitMutex' = t
    /\ pc' = [pc EXCEPT ![t] = "init_check"]
    /\ UNCHANGED operatorVars
    /\ UNCHANGED <<initialized, initRuns, initCallStart, hasCompiler, m_module, stages>>

\* if (!initialized)
init_check(t) ==
    /\ pc[t] = "init_check"
    /\ pc' = [pc EXCEPT ![t] = IF ~initialized THEN InitStepPc[1] ELSE "init_unlock"]
    /\ UNCHANGED operatorVars
    /\ UNCHANGED <<mlirInitMutex, initialized, initRuns, initCallStart, hasCompiler,
                   m_module, stages>>

\* One call of the body: initializeNGraphMLIR(), registerPassManagerCLOptions(),
\* ParseEnvironmentOptions("ngraph", "NGRAPH_MLIR_OPTIONS", "").
init_step(t) ==
    \E i \in 1..Len(InitSteps) :
        /\ pc[t] = InitStepPc[i]
        /\ initRuns' = [initRuns EXCEPT ![i] = @ + 1]
        /\ pc' = [pc EXCEPT ![t] = IF i < Len(InitSteps) THEN InitStepPc[i + 1]
                                   ELSE "init_flag"]
        /\ UNCHANGED operatorVars
        /\ UNCHANGED <<mlirInitMutex, initialized, initCallStart, hasCompiler,
                       m_module, stages>>

\* initialized = true;
init_flag(t) ==
    /\ pc[t] = "init_flag"
    /\ initialized' = TRUE
    /\ pc' = [pc EXCEPT ![t] = "init_unlock"]
    /\ UNCHANGED operatorVars
    /\ UNCHANGED <<mlirInitMutex, initRuns, initCallStart, hasCompiler, m_module, stages>>

\* End of init(): the unique_lock releases the mutex.
init_unlock(t) ==
    /\ pc[t] = "init_unlock"
    /\ mlirInitMutex' = 0
    /\ pc' = [pc EXCEPT ![t] = "idle"]
    /\ UNCHANGED operatorVars
    /\ UNCHANGED <<initialized, initRuns, initCallStart, hasCompiler, m_module, stages>>

\* Compiler::Compiler(function, context): the members are set; the body
\* (the NGRAPH_CHECK) has not run yet.
Compiler_call(t) ==
    /\ pc[t] = "idle"
    /\ ~hasCompiler[t]
    /\ pc' = [pc EXCEPT ![t] = "ctor"]
    /\ UNCHANGED operatorVars
    /\ UNCHANGED <<mlirInitMutex, initialized, initRuns, initCallStart, hasCompiler,
                   m_module, stages>>

\* Mutant of Compiler_check: the constructor does not look at `initialized`.
Compiler_check_NoCheck(t) ==
    /\ pc[t] = "ctor"
    /\ hasCompiler' = [hasCompiler EXCEPT ![t] = TRUE]
    /\ pc' = [pc EXCEPT ![t] = "idle"]
    /\ UNCHANGED operatorVars
    /\ UNCHANGED <<mlirInitMutex, initialized, initRuns, initCallStart, m_module, stages>>

\* NGRAPH_CHECK(initialized, "Cannot instantiate a compiler without
\* initializing MLIR"): the read of `initialized` takes no lock, so it sees the
\* value before or after a concurrent init_flag step, as the steps interleave.
Compiler_check(t) ==
    /\ pc[t] = "ctor"
    /\ IF initialized
       THEN /\ hasCompiler' = [hasCompiler EXCEPT ![t] = TRUE]
            /\ pc' = [pc EXCEPT ![t] = "idle"]
       ELSE /\ hasCompiler' = hasCompiler
            /\ pc' = [pc EXCEPT ![t] = "ctor_fatal"]
    /\ UNCHANGED operatorVars
    /\ UNCHANGED <<mlirInitMutex, initialized, initRuns, initCallStart, m_module, stages>>

\* compile() -> buildNgDialectModule():
\* m_module = mlir::ModuleOp::create(...), an empty module.
build_create(t) ==
    /\ pc[t] = "idle"
    /\ hasCompiler[t]
    /\ m_module' = [m_module EXCEPT ![t] =
                      [form |-> "empty", wellformed |-> TRUE, verified |-> FALSE]]
    /\ stages' = [stages EXCEPT ![t] = <<[stage |-> "create", ok |-> TRUE,
                                            passes |-> << >>]>>]
    /\ pc' = [pc EXCEPT ![t] = "build_run"]
    /\ UNCHANGED operatorVars
    /\ UNCHANGED <<mlirInitMutex, initialized, initRuns, initCallStart, hasCompiler>>

\* Mutant of RunPasses: a failed pass manager run is not checked.
RunPasses_NoAbort(t, here, stage, form, next) ==
    /\ pc[t] = here
    /\ \E ok \in BOOLEAN, wf \in BOOLEAN :
          /\ m_module' = [m_module EXCEPT ![t] =
                            [form |-> IF ok THEN form ELSE form \o "_partial",
                             wellformed |-> wf, verified |-> FALSE]]
          /\ stages' = [stages EXCEPT ![t] =
                          Append(@, [stage |-> stage, ok |-> ok,
                                     passes |-> PassesOf(stage)])]
          /\ pc' = [pc EXCEPT ![t] = next]
    /\ UNCHANGED operatorVars
    /\ UNCHANGED <<mlirInitMutex, initialized, initRuns, initCallStart, hasCompiler>>

\* A pass manager run over m_module: it succeeds or fails, and leaves a module
\* that is structurally valid or not; both are decided by the passes.
RunPasses(t, here, stage, form, next) ==
    /\ pc[t] = here
    /\ \E ok \in BOOLEAN, wf \in BOOLEAN :
          /\ m_module' = [m_module EXCEPT ![t] =
                            [form |-> IF ok THEN form ELSE form \o "_partial",
                             wellformed |-> wf, verified |-> FALSE]]
          /\ stages' = [stages EXCEPT ![t] =
                          Append(@, [stage |-> stage, ok |-> ok,
                                     passes |-> PassesOf(stage)])]
          \* if (failed(pm.run(...))) NGRAPH_CHECK(false, "MLIR pass manager failed")
          /\ pc' = [pc EXCEPT ![t] = IF ok THEN next ELSE "compile_fatal"]
    /\ UNCHANGED operatorVars
    /\ UNCHANGED <<mlirInitMutex, initialized, initRuns, initCallStart, hasCompiler>>

\* Mutant of VerifyModule: the result of verify() is ignored.
VerifyModule_Ignored(t, here, stage, next) ==
    /\ pc[t] = here
    /\ LET ok == m_module[t].wellformed IN
          /\ m_module' = [m_module EXCEPT ![t].verified = ok]
          /\ stages' = [stages EXCEPT ![t] =
                          Append(@, [stage |-> stage, ok |-> ok, passes |-> << >>])]
          /\ pc' = [pc EXCEPT ![t] = next]
    /\ UNCHANGED operatorVars
    /\ UNCHANGED <<mlirInitMutex, initialized, initRuns, initCallStart, hasCompiler>>

\* m_module->verify(): fails exactly on a structurally invalid module.
VerifyModule(t, here, stage, next) ==
    /\ pc[t] = here
    /\ LET ok == m_module[t].wellformed IN
          /\ m_module' = [m_module EXCEPT ![t].verified = ok]
          /\ stages' = [stages EXCEPT ![t] =
                          Append(@, [stage |-> stage, ok |-> ok, passes |-> << >>])]
          \* if (failed(m_module->verify())) NGRAPH_CHECK(false, "Invalid module ...")
          /\ pc' = [pc EXCEPT ![t] = IF ok THEN next ELSE "compile_fatal"]
    /\ UNCHANGED operatorVars
    /\ UNCHANGED <<mlirInitMutex, initialized, initRuns, initCallStart, hasCompiler>>

\* buildNgDialectModule(): the pass manager with createNgDialectConversionPass.
build_run(t) == RunPasses(t, "build_run", "convert", "ng", "build_verify")

\* buildNgDialectModule(): verification, then the call of optimizeNgDialect().
build_verify(t) == VerifyModule(t, "build_verify", "verify_ng", "opt_run")

\* optimizeNgDialect(): the pass manager with createLowerToLLVMPass.
opt_run(t) == RunPasses(t, "opt_run", "lower", "llvm", "opt_verify")

\* optimizeNgDialect(): verification; compile() then returns to its caller.
opt_verify(t) == VerifyModule(t, "opt_verify", "verify_llvm", "idle")

CompilerNext ==
    \E t \in Threads :
          \/ init_call(t)
          \/ init_lock(t)
          \/ init_check(t)
          \/ init_step(t)
          \/ init_flag(t)
          \/ init_unlock(t)
          \/ Compiler_call(t)
          \/ Compiler_check(t)
          \/ build_create(t)
          \/ build_run(t)
          \/ build_verify(t)
          \/ opt_run(t)
          \/ opt_verify(t)

SpecCompiler == CompilerInit /\ [][CompilerNext]_vars

-----------------------------------------------------------------------------
(* Properties of runtime::mlir::Compiler *)

\* The thread is inside the body guarded by `if (!initialized)`.
InInitBody(t) == pc[t] \in {"init_ngraph", "init_clopts", "init_env", "init_flag"}

AllInitStepsRun == \A i \in 1..Len(InitSteps) : initRuns[i] >= 1

\* C1: whatever the number and interleaving of init() calls, each call of the
\* initialization body runs at most once, no two threads are inside the body
\* at the same time, and once an init() call is past the body (or the flag is
\* set) each of the three calls has run exactly once.
C1_InitBodyOnce ==
    /\ \A i \in 1..Len(InitSteps) : initRuns[i] <= 1
    /\ Cardinality({t \in Threads : InInitBody(t)}) <= 1
    /\ (initialized \/ \E t \in Threads : pc[t] = "init_unlock")
          => \A i \in 1..Len(InitSteps) : initRuns[i] = 1

\* Two init() calls raced: one is past the body, the other began before the
\* flag was set and is still waiting for the mutex.
C1_Witness ==
    \E t, u \in Threads :
        /\ pc[t] = "init_unlock" /\ ~initCallStart[t]
        /\ pc[u] = "init_lock" /\ ~initCallStart[u]
        /\ initialized

\* C2: a constructor that reads `initialized` as false fails fatally and
\* leaves no Compiler; a constructor that succeeds does so when the flag is
\* set, every initialization step has run and no thread is inside the body.
C2_ConstructAfterInit ==
    [][\A t \in Threads :
          (pc[t] = "ctor" /\ pc'[t] # "ctor") =>
              IF initialized
              THEN /\ AllInitStepsRun
                   /\ \A u \in Threads : ~InInitBody(u)
                   /\ hasCompiler'[t]
              ELSE /\ pc'[t] = "ctor_fatal"
                   /\ ~hasCompiler'[t]]_vars

\* One construction succeeded and another, begun before initialization had
\* completed, failed.
C2_Witness ==
    \E t, u \in Threads : hasCompiler[t] /\ pc[u] = "ctor_fatal" /\ initialized

StageNames(t) == [i \in 1..Len(stages[t]) |-> stages[t][i].stage]

\* C3: the stages of one compile() call are a prefix of the fixed order
\* create, convert, verify, lower, verify; the lowering pass runs only after
\* the first verification passed; compile() returns normally only after all
\* five stages, the last being the second verification, passed.
C3_LinearPipeline ==
    \A t \in Threads :
        /\ Len(stages[t]) <= Len(StageOrder)
        /\ StageNames(t) = SubSeq(StageOrder, 1, Len(stages[t]))
        /\ Len(stages[t]) >= 4 => stages[t][3].ok /\ stages[t][2].ok
        /\ (pc[t] = "idle" /\ stages[t] # << >>) =>
              /\ Len(stages[t]) = Len(StageOrder)
              /\ \A i \in 1..Len(stages[t]) : stages[t][i].ok
              /\ m_module[t] = [form |-> "llvm", wellformed |-> TRUE, verified |-> TRUE]

\* A compile() call has returned normally.
C3_Witness ==
    \E t \in Threads : pc[t] = "idle" /\ Len(stages[t]) = Len(StageOrder)

\* C4: a failed pass manager run or a failed verification is the last stage
\* of its compile() call, and the call has aborted: no stage follows it.
C4_FailureIsFatal ==
    \A t \in Threads :
        \A i \in 1..Len(stages[t]) :
            ~stages[t][i].ok => i = Len(stages[t]) /\ pc[t] = "compile_fatal"

\* One compile() aborted on the first verification (optimizeNgDialect never
\* entered), another on the lowering pass.
C4_Witness ==
    \E t, u \in Threads :
        /\ pc[t] = "compile_fatal" /\ Len(stages[t]) = 3 /\ ~stages[t][3].ok
        /\ pc[u] = "compile_fatal" /\ Len(stages[u]) = 4 /\ ~stages[u][4].ok

\* C5: after compile() aborted, the Compiler holds no partially built or
\* unverified module in m_module.
C5_NoPartialModuleAfterAbort ==
    \A t \in Threads :
        pc[t] = "compile_fatal" =>
            \/ m_module[t].form = "null"
            \/ m_module[t].verified /\ m_module[t].form \in {"ng", "llvm"}


\* C15: an init() call that began after initialization had completed (it
\* began with the flag set) returns without acquiring the mutex.
C15_NoLockAfterInitialization ==
    \A t \in Threads : initCallStart[t] => mlirInitMutex # t

\* What a pass does, by the function that creates it.
PassKind(pass) ==
    IF pass = "createNgDialectConversionPass" THEN "graph-to-dialect conversion"
    ELSE IF pass = "createLowerToLLVMPass" THEN "lowering to the native (LLVM) form"
    ELSE "other"

\* C16: the step from the verified dialect module to the optimized module
\* runs three passes on the module, each once and in this order: a fusion
\* pass, the dialect-to-standard-form conversion, the standard-form-to-native
\* lowering.
C16_OptimizePassOrder ==
    \A t \in Threads :
        \A i \in 1..Len(stages[t]) :
            (stages[t][i].stage = "lower" /\ stages[t][i].ok) =>
                /\ Len(stages[t][i].passes) = 3
                /\ [k \in 1..3 |-> PassKind(stages[t][i].passes[k])] =
                      <<"fusion", "dialect-to-standard-form conversion",
                        "lowering to the native (LLVM) form">>

\* What the code does in that step: one pass manager run of one pass, the
\* lowering to the LLVM form, on the module the first verification accepted.
OptimizeRunsOneLoweringPass ==
    \A t \in Threads :
        \A i \in 1..Len(stages[t]) :
            stages[t][i].stage = "lower" =>
                /\ i = 4
                /\ stages[t][3].ok
                /\ stages[t][i].passes = <<"createLowerToLLVMPass">>

-----------------------------------------------------------------------------
(* Shapes and size_t arithmetic used by the Broadcast operators *)

\* Dimension::dynamic()
Dynamic == -1

\* size_t is 64 bits wide in the program. The model computes modulo 2^30 (its
\* integers are 32 bits wide); every rank and axis of the model is far below,
\* so a difference that is negative wraps to a value above every rank, as in
\* the program.
SizeModulus == 2^30

\* Conversion of a signed value (an int64_t such as m_axis) to size_t.
ToSize(x) == ((x % SizeModulus) + SizeModulus) % SizeModulus

\* a - b on size_t.
SizeSub(a, b) == ToSize(a - b)

\* a < b etc. on size_t values are the integer comparisons of the
\* representatives in 0..SizeModulus-1.

Max(a, b) == IF a >= b THEN a ELSE b

\* PartialShape with a known rank / PartialShape::dynamic().
StaticRank(dims) == [rank_dynamic |-> FALSE, dims |-> dims]

DynamicShape == [rank_dynamic |-> TRUE, dims |-> << >>]

\* PartialShape::is_static()
is_static(ps) ==
    /\ ~ps.rank_dynamic
    /\ \A i \in 1..Len(ps.dims) : ps.dims[i] # Dynamic

\* Rank::compatible(1) of a partial shape's rank.
rank_compatible(ps, r) == ps.rank_dynamic \/ Len(ps.dims) = r

\* shape_size(shape): the number of elements.
RECURSIVE shape_size(_)
shape_size(dims) ==
    IF dims = << >> THEN 1 ELSE Head(dims) * shape_size(Tail(dims))

\* std::is_sorted(begin, end): no element is smaller than its predecessor.
is_sorted(v) == \A i \in 1..(Len(v) - 1) : ~(v[i + 1] < v[i])

\* vector::insert(begin(), 1) until the vector has `rank` elements.
RECURSIVE PadLeft(_, _)
PadLeft(shape, rank) ==
    IF Len(shape) < rank THEN PadLeft(<<1>> \o shape, rank) ELSE shape

\* vector::erase(begin() + k) (0-based k).
EraseAt(shape, k) == SubSeq(shape, 1, k) \o SubSeq(shape, k + 2, Len(shape))

\* Outcomes of validate_and_infer_types(): a NODE_VALIDATION_CHECK failure
\* (an exception, no output type is set) or set_output_type(0, et, shape).
\* `reads` holds the indices at which the call has read arg_shape[...] with
\* the unchecked operator[] (from 0).
Fail(msg) == [ok |-> FALSE, error |-> msg, shape |-> DynamicShape, reads |-> {}]

Infer(ps) == [ok |-> TRUE, error |-> "", shape |-> ps, reads |-> {}]

-----------------------------------------------------------------------------
(* op::v3::Broadcast and op::v1::Broadcast: validate_and_infer_types() *)

\* The element type and rank checks of the target_shape input and, in NONE
\* mode, of the axes_mapping input. "" when every check passes.
CheckInputTypes(n) ==
    IF ~n.target.integral
    THEN "Broadcast shape must be an integral number"
    ELSE IF ~rank_compatible(n.target.pshape, 1)
    THEN "Broadcast shape rank must be 1"
    ELSE IF n.m_broadcast_spec.m_type = "NONE" /\ ~n.axes_mapping.integral
    THEN "Broadcast axes must be integral numbers"
    ELSE IF n.m_broadcast_spec.m_type = "NONE"
            /\ ~rank_compatible(n.axes_mapping.pshape, 1)
    THEN "Broadcast axes rank must be 1"
    ELSE ""

\* result_shape as far as the target_shape input determines it: the value of
\* a Constant; one dimension per input of a Concat of single elements
\* (dynamic where the input is no Constant); PartialShape::dynamic() otherwise.
TargetResultShape(n) ==
    IF n.target.op = "Constant"
    THEN StaticRank(n.target.val)
    ELSE IF /\ n.target.op = "Concat"
            /\ is_static(n.target.pshape)
            /\ Len(n.target.pshape.dims) = 1
            /\ Len(n.target.val) = shape_size(n.target.pshape.dims)
    THEN StaticRank(n.target.val)
    ELSE DynamicShape

\* Mutant of MappingLoop: the mapped target dimension is not compared with
\* the arg dimension.
RECURSIVE MappingLoop_NoDimCheck(_, _, _, _)
MappingLoop_NoDimCheck(i, axes_mapping_val, target_shape, arg_shape) ==
    IF i > Len(axes_mapping_val)
    THEN ""
    ELSE IF ~(axes_mapping_val[i] < Len(target_shape))
    THEN "Broadcast axes_mapping exceeds target rank"
    ELSE MappingLoop_NoDimCheck(i + 1, axes_mapping_val, target_shape, arg_shape)

\* The loop over axes_mapping_val of NONE mode, from index i (1-based here).
RECURSIVE MappingLoop(_, _, _, _)
MappingLoop(i, axes_mapping_val, target_shape, arg_shape) ==
    IF i > Len(axes_mapping_val)
    THEN ""
    ELSE IF ~(axes_mapping_val[i] < Len(target_shape))
    THEN "Broadcast axes_mapping exceeds target rank"
    ELSE IF target_shape[axes_mapping_val[i] + 1] # arg_shape[i]
    THEN "Broadcast target[axes_mapping[i]] differs from the arg dimension"
    ELSE MappingLoop(i + 1, axes_mapping_val, target_shape, arg_shape)

\* NONE mode: "Validate axes_mapping".
ValidateAxesMapping(n, result_shape) ==
    IF /\ is_static(n.arg)
       /\ is_static(n.target.pshape)
       /\ is_static(n.axes_mapping.pshape)
    THEN IF shape_size(n.axes_mapping.pshape.dims) # Len(n.arg.dims)
         THEN Fail("Broadcast axes_mapping shape doesn't match rank of input tensor")
         ELSE IF n.target.op = "Constant" /\ n.axes_mapping.op = "Constant"
         THEN IF ~is_sorted(n.axes_mapping.val)
              THEN Fail("Broadcast doesn't permit transposes")
              ELSE LET err == MappingLoop(1, n.axes_mapping.val, n.target.val,
                                          n.arg.dims)
                   IN  IF err # "" THEN Fail(err) ELSE Infer(result_shape)
         ELSE Infer(result_shape)
    ELSE Infer(result_shape)

\* arg_shape[k] (0-based k). An index at or beyond arg_shape.size() reads
\* outside the vector: the value is whatever the memory holds.
ArgDim(arg_shape, k, junk) ==
    IF k < Len(arg_shape) THEN arg_shape[k + 1] ELSE junk

\* The loop `for (auto i = start_axis; i < target_shape.size(); i++)` of the
\* NUMPY / PDPD / BIDIRECTIONAL modes, from index i (0-based, a size_t).
RECURSIVE BroadcastLoop(_, _, _, _, _, _)
BroadcastLoop(i, start_axis, arg_shape, target_shape, dims, junk) ==
    IF ~(i < Len(target_shape))
    THEN [Infer(StaticRank(dims)) EXCEPT !.reads = 0..(i - 1 - start_axis)]
    ELSE LET a == ArgDim(arg_shape, SizeSub(i, start_axis), junk[i + 1])
             t == target_shape[i + 1]
         IN  IF ~(a = 1 \/ t = 1 \/ a = t)
             THEN [Fail("Broadcast incorrect target shape")
                      EXCEPT !.reads = 0..(i - start_axis)]
             ELSE BroadcastLoop(i + 1, start_axis, arg_shape, target_shape,
                                [dims EXCEPT ![i + 1] = Max(a, t)], junk)

\* Mutant of BidirectionalPad: only the arg shape is padded.
BidirectionalPad_ArgOnly(arg_shape, target_shape) ==
    [arg |-> PadLeft(arg_shape, Max(Len(arg_shape), Len(target_shape))),
     target |-> target_shape]

\* BIDIRECTIONAL: "Add left padding to shorter target or argument shape".
BidirectionalPad(arg_shape, target_shape) ==
    LET target_padded_rank == Max(Len(arg_shape), Len(target_shape))
    IN  [arg |-> PadLeft(arg_shape, target_padded_rank),
         target |-> PadLeft(target_shape, target_padded_rank)]

\* NUMPY / PDPD / BIDIRECTIONAL mode: alignment of arg and target shape.
AlignToTarget(n, result_shape, junk) ==
    IF is_static(n.arg) /\ is_static(n.target.pshape) /\ n.target.op = "Constant"
    THEN LET bidirectional == n.m_broadcast_spec.m_type = "BIDIRECTIONAL"
             padded == BidirectionalPad(n.arg.dims, n.target.val)
             arg_shape == IF bidirectional THEN padded.arg ELSE n.arg.dims
             target_shape == IF bidirectional THEN padded.target ELSE n.target.val
             dims == IF bidirectional THEN target_shape ELSE result_shape.dims
             start_axis == IF n.m_broadcast_spec.m_type = "PDPD"
                           THEN ToSize(n.m_broadcast_spec.m_axis)
                           ELSE SizeSub(Len(target_shape), Len(arg_shape))
         IN  \* start_axis is a size_t: the comparison with 0 cannot fail
             IF ~(start_axis >= 0)
             THEN Fail("Broadcast target_shape has smaller rank than arg shape")
             ELSE BroadcastLoop(start_axis, start_axis, arg_shape, target_shape,
                                dims, junk)
    ELSE Infer(result_shape)

\* op::v3::Broadcast::validate_and_infer_types()
v3_validate_and_infer_types(n, junk) ==
    LET err == CheckInputTypes(n)
        result_shape == TargetResultShape(n)
    IN  IF err # ""
        THEN Fail(err)
        ELSE IF n.m_broadcast_spec.m_type = "NONE"
        THEN ValidateAxesMapping(n, result_shape)
        ELSE IF n.m_broadcast_spec.m_type \in {"NUMPY", "PDPD", "BIDIRECTIONAL"}
        THEN AlignToTarget(n, result_shape, junk)
        ELSE Infer(result_shape)

\* op::v1::Broadcast::validate_and_infer_types(): no branch for BIDIRECTIONAL.
v1_validate_and_infer_types(n, junk) ==
    LET err == CheckInputTypes(n)
        result_shape == TargetResultShape(n)
    IN  IF err # ""
        THEN Fail(err)
        ELSE IF n.m_broadcast_spec.m_type = "NONE"
        THEN ValidateAxesMapping(n, result_shape)
        ELSE IF n.m_broadcast_spec.m_type \in {"NUMPY", "PDPD"}
        THEN AlignToTarget(n, result_shape, junk)
        ELSE Infer(result_shape)

\* The constructors of op::v3::Broadcast: the one with an axes_mapping input
\* ("explicit") and the one that supplies the default constant ("auto").
v3_Broadcast(n, junk) ==
    IF n.ctor = "explicit" /\ n.m_broadcast_spec.m_type # "NONE"
    THEN Fail("axes_mapping input should not be provided for mode other than explicit")
    ELSE IF n.ctor = "auto" /\ n.m_broadcast_spec.m_type = "NONE"
    THEN Fail("axes_mapping input should be provided if explicit mode is used")
    ELSE v3_validate_and_infer_types(n, junk)

\* The constructors of op::v1::Broadcast: no check of the mode.
v1_Broadcast(n, junk) == v1_validate_and_infer_types(n, junk)

-----------------------------------------------------------------------------
(* op::v3::Broadcast and op::v1::Broadcast: get_broadcast_axes(),           *)
(* generate_adjoints() and clone_with_new_inputs()                          *)

\* The elements of a vector, as a set (AxisSet::insert(begin, end)).
Range(v) == {v[i] : i \in 1..Len(v)}

\* Results of get_broadcast_axes(): the pair (axes_known, broadcast_axes), or
\* the exception it throws.
\* `reads` holds the indices at which the call has read arg_shape[...];
\* `erases` holds, for every axes.erase(axes.begin() + *i) the call has made,
\* the index *i and the size of axes at that moment.
AxesPair(axes_known, broadcast_axes) ==
    [thrown |-> "", first |-> axes_known, second |-> broadcast_axes,
     reads |-> {}, erases |-> {}]

Thrown(msg) ==
    [thrown |-> msg, first |-> FALSE, second |-> {}, reads |-> {}, erases |-> {}]

\* axes.erase(axes.begin() + *i) for the entries of axes_mapping_val from the
\* last (k = size) to the first. An entry at or beyond the current size of
\* axes names no element: the erase is undefined (defined |-> FALSE).
\* `erases` collects the erase calls made, the undefined one included.
RECURSIVE EraseMapped(_, _, _)
EraseMapped(axes, axes_mapping_val, k) ==
    IF k = 0
    THEN [defined |-> TRUE, axes |-> axes, erases |-> {}]
    ELSE LET call == [index |-> axes_mapping_val[k], size |-> Len(axes)]
         IN  IF ~(axes_mapping_val[k] < Len(axes))
             THEN [defined |-> FALSE, axes |-> axes, erases |-> {call}]
             ELSE LET rest == EraseMapped(EraseAt(axes, axes_mapping_val[k]),
                                          axes_mapping_val, k - 1)
                  IN  [rest EXCEPT !.erases = @ \cup {call}]

\* What an erase outside the vector can lead to: the program is killed, or
\* it goes on with any content of the vector.
UndefinedErase ==
    {Thrown("terminated by an erase outside the vector")}
    \cup {AxesPair(TRUE, S) : S \in SUBSET (0..(MaxRank - 1))}

\* get_broadcast_axes(), NONE mode: the possible results.
MappedAxes(n) ==
    IF is_static(n.target.pshape) /\ n.axes_mapping.op = "Constant"
    THEN LET target_shape == n.target.pshape.dims
         IN  IF Len(target_shape) # 1
             THEN {Thrown("NGRAPH_CHECK(target_shape.size() == 1)")}
             ELSE LET axes == [i \in 1..target_shape[1] |-> i - 1]
                      erased == EraseMapped(axes, n.axes_mapping.val,
                                            Len(n.axes_mapping.val))
                  IN  IF erased.defined
                      THEN {[AxesPair(TRUE, Range(erased.axes))
                               EXCEPT !.erases = erased.erases]}
                      ELSE {[r EXCEPT !.erases = erased.erases] : r \in UndefinedErase}
    ELSE {AxesPair(FALSE, {})}

\* get_broadcast_axes(), NUMPY / PDPD / BIDIRECTIONAL mode, for the output
\* shape o.shape of the node; junk[i + 1] is what a read outside arg_shape
\* returns in iteration i.
AlignedAxes(n, o, junk) ==
    IF is_static(n.arg) /\ is_static(o.shape)
    THEN LET arg_shape == n.arg.dims
             result_shape == o.shape.dims
             start_axis == IF n.m_broadcast_spec.m_type = "PDPD"
                           THEN ToSize(n.m_broadcast_spec.m_axis)
                           ELSE SizeSub(Len(result_shape), Len(arg_shape))
         IN  \* start_axis is a size_t: the comparison with 0 cannot fail
             IF ~(start_axis >= 0)
             THEN {Thrown("NGRAPH_CHECK(start_axis >= 0)")}
             ELSE {[AxesPair(TRUE,
                      {i \in 0..(Len(result_shape) - 1) :
                          \/ i < start_axis
                          \/ result_shape[i + 1] #
                                ArgDim(arg_shape, SizeSub(i, start_axis), junk[i + 1])})
                    EXCEPT !.reads = {i - start_axis : i \in
                                        {j \in 0..(Len(result_shape) - 1) :
                                            ~(j < start_axis)}}]}
    ELSE {AxesPair(FALSE, {})}

\* op::v3::Broadcast::get_broadcast_axes()
v3_get_broadcast_axes(n, o, junk) ==
    IF n.m_broadcast_spec.m_type = "NONE"
    THEN MappedAxes(n)
    ELSE IF n.m_broadcast_spec.m_type \in {"NUMPY", "PDPD", "BIDIRECTIONAL"}
    THEN AlignedAxes(n, o, junk)
    ELSE {Thrown("Unknown autobroadcast type")}

\* op::v1::Broadcast::get_broadcast_axes(): BIDIRECTIONAL is an unknown type.
v1_get_broadcast_axes(n, o, junk) ==
    IF n.m_broadcast_spec.m_type = "NONE"
    THEN MappedAxes(n)
    ELSE IF n.m_broadcast_spec.m_type \in {"NUMPY", "PDPD"}
    THEN AlignedAxes(n, o, junk)
    ELSE {Thrown("Unknown autobroadcast type")}

\* Mutant of generate_adjoints: the axes_known flag of the pair is not tested.
generate_adjoints_IgnoreKnown(broadcast_axes) ==
    IF broadcast_axes.thrown # ""
    THEN [ok |-> FALSE, error |-> broadcast_axes.thrown, deltas |-> {},
          reads |-> broadcast_axes.reads, erases |-> broadcast_axes.erases]
    ELSE [ok |-> TRUE, error |-> "",
          deltas |-> {[input |-> 0, op |-> "Sum",
                       reduction_axes |-> broadcast_axes.second]},
          reads |-> broadcast_axes.reads, erases |-> broadcast_axes.erases]

\* The adjoints map after generate_adjoints() when get_broadcast_axes()
\* returned broadcast_axes: one delta for input 0, the Sum of the output
\* delta over the axes, or the exception and no delta.
generate_adjoints(broadcast_axes) ==
    IF broadcast_axes.thrown # ""
    THEN [ok |-> FALSE, error |-> broadcast_axes.thrown, deltas |-> {},
          reads |-> broadcast_axes.reads, erases |-> broadcast_axes.erases]
    ELSE IF broadcast_axes.first
    THEN [ok |-> TRUE, error |-> "",
          deltas |-> {[input |-> 0, op |-> "Sum",
                       reduction_axes |-> broadcast_axes.second]},
          reads |-> broadcast_axes.reads, erases |-> broadcast_axes.erases]
    ELSE [ok |-> FALSE, error |-> "Autodiff not supported on dynamic op variants",
          deltas |-> {}, reads |-> broadcast_axes.reads,
          erases |-> broadcast_axes.erases]

\* check_new_args_count(this, new_args)
check_new_args_count(new_args) == Len(new_args) = 3

\* The node a clone constructs: always through the constructor that takes an
\* axes_mapping input, with the m_broadcast_spec of the original.
CloneCall(n, new_args) ==
    [n EXCEPT !.ctor = "explicit", !.arg = new_args[1], !.target = new_args[2],
              !.axes_mapping = new_args[3]]

\* op::v3::Broadcast::clone_with_new_inputs(new_args)
v3_clone_with_new_inputs(n, new_args, junk) ==
    IF ~check_new_args_count(new_args)
    THEN [node |-> NoNode, out |-> Fail("clone_with_new_inputs() expected 3 arguments")]
    ELSE [node |-> CloneCall(n, new_args),
          out |-> v3_Broadcast(CloneCall(n, new_args), junk)]

\* op::v1::Broadcast::clone_with_new_inputs(new_args)
v1_clone_with_new_inputs(n, new_args, junk) ==
    IF ~check_new_args_count(new_args)
    THEN [node |-> NoNode, out |-> Fail("clone_with_new_inputs() expected 3 arguments")]
    ELSE [node |-> CloneCall(n, new_args),
          out |-> v1_Broadcast(CloneCall(n, new_args), junk)]

-----------------------------------------------------------------------------
(* The Broadcast nodes the model constructs *)

\* All sequences over S of length at most n.
SeqsUpTo(S, n) == UNION {[1..k -> S] : k \in 0..n}

\* Static shapes of rank at most MaxRank.
Shapes == SeqsUpTo(DimValues, MaxRank)

\* Values of an axes_mapping constant: axes below the largest rank (so at or
\* beyond the rank of every shorter target shape).
Mappings == SeqsUpTo(0..(MaxRank - 1), MaxRank)

\* An integer Constant of shape [Len(v)] holding v.
ConstVector(v) ==
    [op |-> "Constant", integral |-> TRUE, pshape |-> StaticRank(<<Len(v)>>), val |-> v]

\* A non-constant input (a Parameter) with the given element type and shape.
Parameter(integral, pshape) ==
    [op |-> "Parameter", integral |-> integral, pshape |-> pshape, val |-> << >>]

\* op::v0::Constant::create(element::u8, Shape{}, {0}): the axes_mapping the
\* constructors without an axes_mapping argument supply.
DefaultAxesMapping ==
    [op |-> "Constant", integral |-> TRUE, pshape |-> StaticRank(<< >>), val |-> <<0>>]

\* The arg input: its partial shape.
ArgInputs == {StaticRank(sh) : sh \in Shapes} \cup {DynamicShape}

\* The target_shape input: an integer vector constant, or one of a few inputs
\* that are no such constant.
TargetInputs ==
    {ConstVector(sh) : sh \in Shapes}
    \cup {Parameter(TRUE, StaticRank(<<k>>)) : k \in 0..MaxRank}
    \cup {Parameter(TRUE, DynamicShape), Parameter(FALSE, StaticRank(<<1>>)),
          Parameter(TRUE, StaticRank(<<1, 1>>))}
    \cup {[op |-> "Concat", integral |-> TRUE, pshape |-> StaticRank(<<Len(v)>>),
           val |-> v] : v \in {<<2, Dynamic>>, <<Dynamic>>, <<2>>}}

\* The axes_mapping input: an integer vector constant or a parameter.
AxesInputs ==
    {ConstVector(m) : m \in Mappings}
    \cup {Parameter(TRUE, StaticRank(<<k>>)) : k \in 0..MaxRank}
    \cup {Parameter(TRUE, DynamicShape), Parameter(FALSE, StaticRank(<<1>>))}

\* AutoBroadcastSpec values; m_axis matters in PDPD mode only.
AutoBroadcastSpecs ==
    {[m_type |-> ty, m_axis |-> 0] : ty \in {"NONE", "NUMPY", "BIDIRECTIONAL"}}
    \cup {[m_type |-> "PDPD", m_axis |-> ax] : ax \in -1..MaxRank}

BroadcastNode(version, ctor, spec, arg, target, axes_mapping) ==
    [kind |-> "Broadcast", version |-> version, ctor |-> ctor,
     m_broadcast_spec |-> spec, arg |-> arg, target |-> target,
     axes_mapping |-> axes_mapping]

\* The constructor calls: with an axes_mapping input in NONE mode over all
\* inputs and in the other modes with one axes_mapping; without one in every mode.
IsBroadcastCall(n) ==
    \E v \in {1, 3}, sp \in AutoBroadcastSpecs, a \in ArgInputs, t \in TargetInputs :
        \/ /\ sp.m_type = "NONE"
           /\ \E m \in AxesInputs : n = BroadcastNode(v, "explicit", sp, a, t, m)
        \/ /\ sp.m_type # "NONE"
           /\ n = BroadcastNode(v, "explicit", sp, a, t, ConstVector(<<0>>))
        \/ n = BroadcastNode(v, "auto", sp, a, t, DefaultAxesMapping)

\* What a read outside arg_shape can return: a value every target dimension
\* is compatible with, and one that some are not.
JunkValues == {1, 3}

\* Per index of the loop, the value an out-of-bounds read of arg_shape
\* returns. Only PDPD mode can index outside arg_shape.
JunkReads(n) ==
    IF n.m_broadcast_spec.m_type = "PDPD"
    THEN [1..MaxRank -> JunkValues]
    ELSE {[i \in 1..MaxRank |-> 0]}

Pending == [kind |-> "pending"]

BroadcastInit ==
    /\ IsBroadcastCall(node)
    /\ out = Pending
    /\ prev = NoNode
    /\ cloned = NoNode
    /\ adjoints = NoNode
    /\ like = NoNode
    /\ v0 = NoNode
    /\ pc = [t \in Threads |-> "idle"]
    /\ mlirInitMutex = 0
    /\ initialized = FALSE
    /\ initRuns = [i \in 1..Len(InitSteps) |-> 0]
    /\ initCallStart = [t \in Threads |-> FALSE]
    /\ hasCompiler = [t \in Threads |-> FALSE]
    /\ m_module = [t \in Threads |-> NullModule]
    /\ stages = [t \in Threads |-> << >>]

\* make_shared<op::v3::Broadcast>(...): the constructor runs.
Construct_v3 ==
    /\ node.version = 3
    /\ out = Pending
    /\ \E junk \in JunkReads(node) : out' = v3_Broadcast(node, junk)
    /\ UNCHANGED <<node, prev, cloned, adjoints, likeVars, v0Vars, compilerVars>>

\* make_shared<op::v1::Broadcast>(...): the constructor runs.
Construct_v1 ==
    /\ node.version = 1
    /\ out = Pending
    /\ \E junk \in JunkReads(node) : out' = v1_Broadcast(node, junk)
    /\ UNCHANGED <<node, prev, cloned, adjoints, likeVars, v0Vars, compilerVars>>

\* The node with the roles of the two shapes exchanged: its arg has the shape
\* the target_shape constant held, its target_shape constant holds the shape
\* of the arg.
Mirrored(n) ==
    [n EXCEPT !.arg = StaticRank(n.target.val), !.target = ConstVector(n.arg.dims)]

\* A second node is constructed from a first one, with the shapes exchanged.
Construct_mirrored ==
    /\ out # Pending
    /\ prev = NoNode
    /\ cloned = NoNode
    /\ adjoints = NoNode
    /\ is_static(node.arg)
    /\ node.target.op = "Constant"
    /\ node' = Mirrored(node)
    /\ prev' = [node |-> node, out |-> out]
    /\ \E junk \in JunkReads(node) :
          out' = IF node.version = 3 THEN v3_Broadcast(node', junk)
                                     ELSE v1_Broadcast(node', junk)
    /\ UNCHANGED <<cloned, adjoints, likeVars, v0Vars, compilerVars>>

\* The replacement input lists of a clone: the node's own inputs, the same
\* with an arg of dynamic shape, and a list that lacks the third input.
NewArgs(n) ==
    {<<n.arg, n.target, n.axes_mapping>>,
     <<DynamicShape, n.target, n.axes_mapping>>,
     <<n.arg, n.target>>}

\* node->clone_with_new_inputs(new_args) on a constructed node.
Clone ==
    /\ out # Pending
    /\ out.ok
    /\ prev = NoNode
    /\ cloned = NoNode
    /\ adjoints = NoNode
    /\ \E new_args \in NewArgs(node), junk \in JunkReads(node) :
          cloned' = IF node.version = 3
                    THEN v3_clone_with_new_inputs(node, new_args, junk)
                    ELSE v1_clone_with_new_inputs(node, new_args, junk)
    /\ UNCHANGED <<node, out, prev, adjoints, likeVars, v0Vars, compilerVars>>

\* node->generate_adjoints(adjoints, deltas) on a constructed node, the
\* adjoints map holding no delta for the arg yet.
Differentiate ==
    /\ out # Pending
    /\ out.ok
    /\ prev = NoNode
    /\ cloned = NoNode
    /\ adjoints = NoNode
    /\ \E junk \in JunkReads(node) :
          \E broadcast_axes \in (IF node.version = 3
                                 THEN v3_get_broadcast_axes(node, out, junk)
                                 ELSE v1_get_broadcast_axes(node, out, junk)) :
              adjoints' = generate_adjoints(broadcast_axes)
    /\ UNCHANGED <<node, out, prev, cloned, likeVars, v0Vars, compilerVars>>

BroadcastNext ==
    \/ Construct_v3
    \/ Construct_v1
    \/ Construct_mirrored
    \/ Clone
    \/ Differentiate

SpecBroadcast == BroadcastInit /\ [][BroadcastNext]_vars

-----------------------------------------------------------------------------
(* Properties of op::v1::Broadcast / op::v3::Broadcast shape inference *)

\* The node has been constructed through a constructor that accepts its mode
\* being checked, from an arg of static shape and a target_shape constant.
InferredFromStatic(mode) ==
    /\ out # Pending
    /\ node.m_broadcast_spec.m_type = mode
    /\ is_static(node.arg)
    /\ node.target.op = "Constant"
    /\ ~(node.version = 3 /\ node.ctor = "explicit" /\ mode # "NONE")
    /\ ~(node.version = 3 /\ node.ctor = "auto" /\ mode = "NONE")

\* Index into A of the dimension aligned with T[j], for the start axis
\* rank(T) - rank(A) (indices from 1).
AlignedIndex(A, T, j) == j - (Len(T) - Len(A))

NumpyCompatible(A, T) ==
    \A j \in 1..Len(T) :
        AlignedIndex(A, T, j) \in 1..Len(A) =>
            LET a == A[AlignedIndex(A, T, j)] IN a = 1 \/ T[j] = 1 \/ a = T[j]

NumpyExpected(A, T) ==
    [j \in 1..Len(T) |->
        IF AlignedIndex(A, T, j) \in 1..Len(A)
        THEN Max(A[AlignedIndex(A, T, j)], T[j])
        ELSE T[j]]

\* NUMPY inference for the pairs of shapes with rank(T) >= rank(A), where the
\* start axis rank(T) - rank(A) is an axis of T: compatible pairs infer
\* max(a, t) in each aligned dimension and T's dimension in the leading ones,
\* an incompatible pair fails validation.
NumpyInferenceRankCovered ==
    (InferredFromStatic("NUMPY") /\ Len(node.target.val) >= Len(node.arg.dims)) =>
        IF NumpyCompatible(node.arg.dims, node.target.val)
        THEN out.ok /\ out.shape = StaticRank(NumpyExpected(node.arg.dims, node.target.val))
        ELSE ~out.ok

\* C6: in NUMPY mode, for all static arg shapes A and constant target shapes
\* T aligned at start axis rank(T) - rank(A): when every aligned pair (a, t)
\* has a = 1, t = 1 or a = t, inference succeeds with max(a, t) in each
\* aligned dimension and T's dimension in the unaligned leading ones;
\* otherwise validation fails.
C6_NumpyInference ==
    InferredFromStatic("NUMPY") =>
        IF NumpyCompatible(node.arg.dims, node.target.val)
        THEN out.ok /\ out.shape = StaticRank(NumpyExpected(node.arg.dims, node.target.val))
        ELSE ~out.ok

\* The dimension i of shape S left-padded with 1s to rank r.
PaddedDim(S, r, i) == IF i > r - Len(S) THEN S[i - (r - Len(S))] ELSE 1

BidirectionalCompatible(A, T) ==
    LET r == Max(Len(A), Len(T)) IN
    \A i \in 1..r :
        \/ PaddedDim(A, r, i) = 1
        \/ PaddedDim(T, r, i) = 1
        \/ PaddedDim(A, r, i) = PaddedDim(T, r, i)

BidirectionalExpected(A, T) ==
    LET r == Max(Len(A), Len(T)) IN
    [i \in 1..r |-> Max(PaddedDim(A, r, i), PaddedDim(T, r, i))]

\* C7: a v3 BIDIRECTIONAL node and the node built with arg shape and target
\* shape exchanged either both fail validation or both infer the same shape,
\* the dimension-wise maximum of the two shapes left-padded with 1s.
C7_BidirectionalSymmetric ==
    (InferredFromStatic("BIDIRECTIONAL") /\ node.version = 3 /\ prev # NoNode) =>
        /\ out.ok = prev.out.ok
        /\ out.ok = BidirectionalCompatible(node.arg.dims, node.target.val)
        /\ out.ok =>
              /\ out.shape = prev.out.shape
              /\ out.shape =
                    StaticRank(BidirectionalExpected(node.arg.dims, node.target.val))

\* Both orders of two shapes of different rank were inferred, and the result
\* is neither of the two shapes.
C7_Witness ==
    /\ InferredFromStatic("BIDIRECTIONAL") /\ node.version = 3 /\ prev # NoNode
    /\ out.ok
    /\ Len(node.arg.dims) < Len(node.target.val)
    /\ out.shape.dims # node.arg.dims
    /\ out.shape.dims # node.target.val

\* The node is in NONE mode with static arg shape, constant target_shape and
\* a constant vector given as axes_mapping input.
ExplicitFromConstants ==
    /\ InferredFromStatic("NONE")
    /\ node.ctor = "explicit"
    /\ node.axes_mapping.op = "Constant"

\* C8: in NONE mode an axes_mapping with a descending or an equal adjacent
\* pair of entries fails validation.
C8_MappingStrictlyAscending ==
    (/\ ExplicitFromConstants
     /\ \E i \in 1..(Len(node.axes_mapping.val) - 1) :
           node.axes_mapping.val[i + 1] <= node.axes_mapping.val[i])
        => ~out.ok

StrictlyAscending(M) == \A i \in 1..(Len(M) - 1) : M[i] < M[i + 1]

\* C9: in NONE mode, for a strictly ascending axes_mapping M with one entry
\* per arg axis: when every M[i] is below rank(T) and T[M[i]] = A[i],
\* inference succeeds with output shape T; otherwise validation fails.
C9_ExplicitMapping ==
    (/\ ExplicitFromConstants
     /\ StrictlyAscending(node.axes_mapping.val)
     /\ Len(node.axes_mapping.val) = Len(node.arg.dims))
        => LET A == node.arg.dims
               T == node.target.val
               M == node.axes_mapping.val
           IN  IF \A i \in 1..Len(M) : M[i] < Len(T) /\ T[M[i] + 1] = A[i]
               THEN out.ok /\ out.shape = StaticRank(T)
               ELSE ~out.ok

\* v3.Broadcast(arg of shape [3], target_shape [2,3], axes_mapping [1]) has
\* inferred [2,3].
C9_Witness ==
    /\ ExplicitFromConstants
    /\ node.version = 3
    /\ node.arg.dims = <<3>>
    /\ node.target.val = <<2, 3>>
    /\ node.axes_mapping.val = <<1>>
    /\ out.ok
    /\ out.shape = StaticRank(<<2, 3>>)

\* The same node with axes_mapping [0] has failed validation.
C9_WitnessRejected ==
    /\ ExplicitFromConstants
    /\ node.version = 3
    /\ node.arg.dims = <<3>>
    /\ node.target.val = <<2, 3>>
    /\ node.axes_mapping.val = <<0>>
    /\ ~out.ok

-----------------------------------------------------------------------------
(* Properties of cloning and differentiating op::v1 / op::v3 Broadcast *)

\* A clone has been made of the constructed node from the node's own inputs.
ClonedFromOwnInputs ==
    /\ cloned # NoNode
    /\ cloned.node # NoNode
    /\ cloned.node.arg = node.arg
    /\ cloned.node.target = node.target
    /\ cloned.node.axes_mapping = node.axes_mapping

\* C11: cloning a successfully constructed Broadcast node with a replacement
\* input list of the original length, whose inputs pass the validation the
\* originals passed (here: the original inputs themselves), succeeds and
\* gives a node of the same kind and version with the same broadcast_spec.
C11_ClonePreservesAttributes ==
    ClonedFromOwnInputs =>
        /\ cloned.out.ok
        /\ cloned.out.shape = out.shape
        /\ cloned.node.kind = node.kind
        /\ cloned.node.version = node.version
        /\ cloned.node.m_broadcast_spec = node.m_broadcast_spec

\* The part of C11 the code satisfies: clones of v3 nodes in NONE mode and of
\* v1 nodes, PDPD mode apart (where validation reads outside arg_shape and a
\* second validation of the same inputs can end otherwise).
ClonePreservesAttributesWhereAccepted ==
    (/\ ClonedFromOwnInputs
     /\ node.version = 1 \/ node.m_broadcast_spec.m_type = "NONE"
     /\ node.m_broadcast_spec.m_type # "PDPD")
        => /\ cloned.out.ok
           /\ cloned.node.kind = node.kind
           /\ cloned.node.version = node.version
           /\ cloned.node.m_broadcast_spec = node.m_broadcast_spec

\* generate_adjoints() has run on a constructed node whose arg shape,
\* target_shape input shape and output shape are static, its axes_mapping
\* being a constant in NONE mode.
DifferentiatedStatic ==
    /\ adjoints # NoNode
    /\ is_static(node.arg)
    /\ is_static(node.target.pshape)
    /\ is_static(out.shape)
    /\ node.m_broadcast_spec.m_type = "NONE" => node.axes_mapping.op = "Constant"

\* The start axis of the alignment: the spec's axis in PDPD mode, otherwise
\* rank(output) - rank(arg), as integers.
StartAxis == IF node.m_broadcast_spec.m_type = "PDPD"
             THEN node.m_broadcast_spec.m_axis
             ELSE Len(out.shape.dims) - Len(node.arg.dims)

\* The broadcast axes C12 names.
ExpectedBroadcastAxes ==
    IF node.m_broadcast_spec.m_type = "NONE"
    THEN (0..(Len(out.shape.dims) - 1)) \ Range(node.axes_mapping.val)
    ELSE {i \in 0..(Len(out.shape.dims) - 1) :
            \/ i < StartAxis
            \/ ~((i - StartAxis) \in 0..(Len(node.arg.dims) - 1))
            \/ out.shape.dims[i + 1] # node.arg.dims[i - StartAxis + 1]}

SumOverExpectedAxes ==
    /\ adjoints.ok
    /\ adjoints.deltas = {[input |-> 0, op |-> "Sum",
                           reduction_axes |-> ExpectedBroadcastAxes]}

\* C12: differentiating a v1/v3 Broadcast node with static arg, target and
\* output shapes (and a constant axes_mapping in NONE mode) succeeds and adds
\* exactly one delta to the arg: the output delta summed over the output axes
\* not named by axes_mapping (NONE), resp. the axes before the start axis or
\* whose output dimension differs from the aligned arg dimension.
C12_AdjointSumsBroadcastAxes == DifferentiatedStatic => SumOverExpectedAxes

\* The inputs on which the defects named by C8, C18, C19, C20 and C21 act: a
\* mapping with repeated or out-of-range entries, v1 in BIDIRECTIONAL mode, a
\* target of lower rank than the arg, a start axis that is negative or leaves
\* target axes without an arg dimension.
OnKnownDefect ==
    \/ /\ node.m_broadcast_spec.m_type = "NONE"
       /\ \/ ~StrictlyAscending(node.axes_mapping.val)
          \/ \E i \in 1..Len(node.axes_mapping.val) :
                ~(node.axes_mapping.val[i] < Len(out.shape.dims))
    \/ node.version = 1 /\ node.m_broadcast_spec.m_type = "BIDIRECTIONAL"
    \/ /\ node.m_broadcast_spec.m_type # "NONE"
       /\ \/ StartAxis < 0
          \/ StartAxis + Len(node.arg.dims) < Len(out.shape.dims)

\* C12 on the inputs none of those defects acts on.
AdjointSumsBroadcastAxesOffDefects ==
    (DifferentiatedStatic /\ ~OnKnownDefect) => SumOverExpectedAxes

\* generate_adjoints() ended by one of the ngraph_error exceptions of an
\* unsupported operation, and the adjoints map got no delta.
Unsupported ==
    /\ ~adjoints.ok
    /\ adjoints.error \in {"Autodiff not supported on dynamic op variants",
                           "Unknown autobroadcast type"}
    /\ adjoints.deltas = {}

\* C13 as stated: differentiation fails as unsupported, adding no delta,
\* whenever the shape of the arg, of target_shape or of axes_mapping is
\* dynamic, in every mode.
C13_DynamicInputUnsupported ==
    (/\ adjoints # NoNode
     /\ \/ ~is_static(node.arg)
        \/ ~is_static(node.target.pshape)
        \/ ~is_static(node.axes_mapping.pshape))
        => Unsupported

\* The broadcast axes cannot be computed from what is static: in NONE mode
\* the shape of target_shape is dynamic or axes_mapping is no constant; in
\* the other modes the arg shape or the output shape is dynamic.
AxesNotResolvable ==
    \/ /\ node.m_broadcast_spec.m_type = "NONE"
       /\ ~is_static(node.target.pshape) \/ node.axes_mapping.op # "Constant"
    \/ /\ node.m_broadcast_spec.m_type # "NONE"
       /\ ~is_static(node.arg) \/ ~is_static(out.shape)

\* C13, amended: differentiation fails as unsupported, adding no delta,
\* whenever the broadcast axes are not statically resolvable; a dynamic arg
\* shape alone does not make it fail in NONE mode.
C13_UnresolvableAxesUnsupported ==
    (adjoints # NoNode /\ AxesNotResolvable) => Unsupported

\* Differentiation was refused for a NONE-mode node whose axes_mapping is no
\* constant, its other shapes being static.
C13_Witness ==
    /\ adjoints # NoNode
    /\ node.m_broadcast_spec.m_type = "NONE"
    /\ is_static(node.arg)
    /\ is_static(node.target.pshape)
    /\ node.axes_mapping.op # "Constant"
    /\ Unsupported

\* Differentiation was refused for a NUMPY-mode node with an arg of dynamic shape.
C13_WitnessAligned ==
    /\ adjoints # NoNode
    /\ node.m_broadcast_spec.m_type = "NUMPY"
    /\ ~is_static(node.arg)
    /\ node.target.op = "Constant"
    /\ Unsupported

\* C14: for v1 and v3, the constructor with an axes_mapping input fails
\* validation unless the mode is NONE, and the constructor without one fails
\* validation unless the mode is not NONE.
C14_ConstructorModeCheck ==
    (/\ out # Pending
     /\ \/ node.ctor = "explicit" /\ node.m_broadcast_spec.m_type # "NONE"
        \/ node.ctor = "auto" /\ node.m_broadcast_spec.m_type = "NONE")
        => ~out.ok

\* The part of C14 the code satisfies: both constructors of v3, and the v1
\* constructor without axes_mapping (its default constant has rank 0, which
\* the rank check of NONE mode rejects).
ConstructorModeCheckWhereEnforced ==
    (/\ out # Pending
     /\ \/ node.version = 3 /\ node.ctor = "explicit"
              /\ node.m_broadcast_spec.m_type # "NONE"
        \/ node.ctor = "auto" /\ node.m_broadcast_spec.m_type = "NONE")
        => ~out.ok

\* C18: validate_and_infer_types() of a v1 node in BIDIRECTIONAL mode fails
\* and sets no output shape.
C18_V1RejectsBidirectional ==
    (/\ out # Pending
     /\ node.version = 1
     /\ node.m_broadcast_spec.m_type = "BIDIRECTIONAL")
        => ~out.ok

\* C19: in NUMPY mode with a static arg shape and a constant target_shape of
\* lower rank than the arg, validation fails with the 'smaller rank' error;
\* inference does not succeed with the target shape as output.
C19_SmallerTargetRankRejected ==
    (/\ out # Pending
     /\ node.m_broadcast_spec.m_type = "NUMPY"
     /\ ~(node.version = 3 /\ node.ctor = "explicit")
     /\ is_static(node.arg)
     /\ node.target.op = "Constant"
     /\ Len(node.target.val) < Len(node.arg.dims))
        => /\ ~out.ok
           /\ out.error = "Broadcast target_shape has smaller rank than arg shape"

\* A PDPD-mode node with static arg shape and constant target_shape has been
\* validated.
ValidatedPDPD ==
    /\ out # Pending
    /\ node.m_broadcast_spec.m_type = "PDPD"
    /\ ~(node.version = 3 /\ node.ctor = "explicit")
    /\ is_static(node.arg)
    /\ node.target.op = "Constant"

\* C20: in PDPD mode every read arg_shape[i - start_axis], in validation and
\* in get_broadcast_axes, is within arg_shape, for every spec axis and every
\* pair of shapes (a start axis with start_axis + rank(arg) < rank(target)
\* being rejected before any read).
C20_ArgShapeReadsInBounds ==
    ValidatedPDPD =>
        /\ \A k \in out.reads : k < Len(node.arg.dims)
        /\ adjoints # NoNode => \A k \in adjoints.reads : k < Len(node.arg.dims)

\* What holds of the code: for a start axis from 0 with
\* start_axis + rank(arg) >= rank(target), no read leaves arg_shape.
ArgShapeReadsInBoundsWhenCovered ==
    (/\ ValidatedPDPD
     /\ node.m_broadcast_spec.m_axis >= 0
     /\ node.m_broadcast_spec.m_axis + Len(node.arg.dims) >= Len(node.target.val))
        => /\ \A k \in out.reads : k < Len(node.arg.dims)
           /\ adjoints # NoNode => \A k \in adjoints.reads : k < Len(node.arg.dims)

\* get_broadcast_axes() has run, through generate_adjoints(), on a NONE-mode
\* node that passed validation.
AxesOfValidatedNone ==
    /\ out # Pending
    /\ out.ok
    /\ node.m_broadcast_spec.m_type = "NONE"
    /\ adjoints # NoNode

\* Every erase the call made named an element of the vector.
ErasesInBounds == \A call \in adjoints.erases : call.index < call.size

\* C21: for every v1/v3 Broadcast node in NONE mode that passed validation,
\* each index get_broadcast_axes erases from the list 0..rank(target)-1 is
\* smaller than the current length of the list, also for a non-constant
\* target_shape of static shape and for repeated axes_mapping values.
C21_ErasesInBounds == AxesOfValidatedNone => ErasesInBounds

\* What holds of the code: when validation has checked the range of the
\* axes_mapping entries (static arg shape, constant target_shape) and the
\* entries are distinct, every erase is within the list.
ErasesInBoundsWhenRangeChecked ==
    (/\ AxesOfValidatedNone
     /\ is_static(node.arg)
     /\ node.target.op = "Constant"
     /\ StrictlyAscending(node.axes_mapping.val))
        => ErasesInBounds

\* The three ways an erase leaves the list: repeated entries under a constant
\* target_shape, a target_shape that is no constant, and an arg of dynamic
\* shape (no entry is validated then).
EraseOutsideRepeated ==
    /\ AxesOfValidatedNone
    /\ is_static(node.arg)
    /\ node.target.op = "Constant"
    /\ ~StrictlyAscending(node.axes_mapping.val)
    /\ ~ErasesInBounds

EraseOutsideNonConstantTarget ==
    /\ AxesOfValidatedNone
    /\ is_static(node.arg)
    /\ node.target.op = "Parameter"
    /\ StrictlyAscending(node.axes_mapping.val)
    /\ ~ErasesInBounds

EraseOutsideDynamicArg ==
    /\ AxesOfValidatedNone
    /\ ~is_static(node.arg)
    /\ node.target.op = "Constant"
    /\ StrictlyAscending(node.axes_mapping.val)
    /\ ~ErasesInBounds

-----------------------------------------------------------------------------
(* op::v0::Broadcast::validate_and_infer_types() and op::v0::BroadcastLike *)

Largest(S) == CHOOSE x \in S : \A y \in S : y <= x

\* The loop over m_broadcast_axes from its last element to its first, erasing
\* each axis from required_input_shape.
RECURSIVE EraseAxes(_, _)
EraseAxes(shape, axes) ==
    IF axes = {} THEN shape
    ELSE EraseAxes(EraseAt(shape, Largest(axes)), axes \ {Largest(axes)})

\* op::v0::Broadcast::infer_shape(): the shape and axes of a v0.Broadcast are
\* its attributes; inference leaves them as they are.
v0_Broadcast_infer_shape(n) == n

\* Mutant of BroadcastLike_infer_shape: the axes are not reset to
\* m_initial_broadcast_axes before they are computed.
BroadcastLike_infer_shape_NoReset(n) ==
    LET in_shape == n.arg
        m_shape == n.like_arg
    IN  [n EXCEPT
            !.m_shape = m_shape,
            !.m_broadcast_axes =
                IF Cardinality(n.m_broadcast_axes) = 0
                THEN {i \in 0..(Len(m_shape) - 1) :
                        IF i < Len(in_shape)
                        THEN in_shape[i + 1] = 1 /\ m_shape[i + 1] > 1
                        ELSE TRUE}
                ELSE n.m_broadcast_axes]

\* op::v0::BroadcastLike::infer_shape()
BroadcastLike_infer_shape(n) ==
    LET in_shape == n.arg
        m_shape == n.like_arg
        m_broadcast_axes == n.m_initial_broadcast_axes
    IN  [n EXCEPT
            !.m_shape = m_shape,
            !.m_broadcast_axes =
                IF Cardinality(m_broadcast_axes) = 0
                THEN {i \in 0..(Len(m_shape) - 1) :
                        IF i < Len(in_shape)
                        THEN in_shape[i + 1] = 1 /\ m_shape[i + 1] > 1
                        ELSE TRUE}
                ELSE m_broadcast_axes]

\* op::v0::Broadcast::validate_and_infer_types() after infer_shape() has left
\* the node as n: the axis check, the compatibility check of the arg shape
\* (static here) and set_output_type. `failed` and `passed` name the outcome.
v0_validate(n, failed, passed) ==
    IF \E axis \in n.m_broadcast_axes : ~(axis < Len(n.m_shape))
    THEN [n EXCEPT !.state = failed,
                   !.error = "Broadcast axis index exceeds specified output shape rank"]
    ELSE IF n.arg # EraseAxes(n.m_shape, n.m_broadcast_axes)
    THEN [n EXCEPT !.state = failed,
                   !.error = "Broadcast argument shape, specified output shape, and axes are incompatible"]
    ELSE [n EXCEPT !.state = passed, !.error = "", !.output = n.m_shape]

\* validate_and_infer_types() on a BroadcastLike node.
BroadcastLike_validate_and_infer_types(n, failed, passed) ==
    v0_validate(BroadcastLike_infer_shape([n EXCEPT !.prev_axes = n.m_broadcast_axes]),
                failed, passed)

\* Subsets of the axes 0..MaxRank-1.
AxisSets == SUBSET (0..(MaxRank - 1))

\* The input shapes of a BroadcastLike: the inference distinguishes a
\* dimension of length 1 from a longer one, and equal from unequal lengths.
LikeShapes == SeqsUpTo({1, 2}, MaxRank)

\* BroadcastLike(arg, like_arg, initial_broadcast_axes) after its member
\* initializers: the base is built as Broadcast({arg, like_arg}, {}, {}).
LikeInit ==
    /\ \E a \in LikeShapes, l \in LikeShapes, ax \in AxisSets :
          like = [kind |-> "BroadcastLike", state |-> "pending", error |-> "",
                  arg |-> a, like_arg |-> l, m_initial_broadcast_axes |-> ax,
                  m_shape |-> << >>, m_broadcast_axes |-> {}, prev_axes |-> {},
                  output |-> << >>]
    /\ node = NoNode
    /\ out = NoNode
    /\ prev = NoNode
    /\ cloned = NoNode
    /\ adjoints = NoNode
    /\ v0 = NoNode
    /\ pc = [t \in Threads |-> "idle"]
    /\ mlirInitMutex = 0
    /\ initialized = FALSE
    /\ initRuns = [i \in 1..Len(InitSteps) |-> 0]
    /\ initCallStart = [t \in Threads |-> FALSE]
    /\ hasCompiler = [t \in Threads |-> FALSE]
    /\ m_module = [t \in Threads |-> NullModule]
    /\ stages = [t \in Threads |-> << >>]

\* The constructor of the base class op::v0::Broadcast runs
\* constructor_validate_and_infer_types() while the object is a v0.Broadcast
\* with empty shape and axes.
BroadcastLike_base_ctor ==
    /\ like.state = "pending"
    /\ like' = v0_validate(v0_Broadcast_infer_shape(like), "base_failed", "base_built")
    /\ UNCHANGED <<broadcastVars, v0Vars, compilerVars>>

\* The body of the BroadcastLike constructor:
\* constructor_validate_and_infer_types().
BroadcastLike_ctor ==
    /\ like.state = "base_built"
    /\ like' = BroadcastLike_validate_and_infer_types(like, "ctor_failed", "valid")
    /\ UNCHANGED <<broadcastVars, v0Vars, compilerVars>>

\* A graph rewrite replaces the arg input by one of another shape and
\* revalidates the node.
BroadcastLike_replace_arg ==
    /\ like.state \in {"valid", "invalid"}
    /\ \E a \in LikeShapes :
          like' = BroadcastLike_validate_and_infer_types([like EXCEPT !.arg = a],
                                                         "invalid", "valid")
    /\ UNCHANGED <<broadcastVars, v0Vars, compilerVars>>

\* A graph rewrite replaces the like_arg input by one of another shape and
\* revalidates the node.
BroadcastLike_replace_like_arg ==
    /\ like.state \in {"valid", "invalid"}
    /\ \E l \in LikeShapes :
          like' = BroadcastLike_validate_and_infer_types([like EXCEPT !.like_arg = l],
                                                         "invalid", "valid")
    /\ UNCHANGED <<broadcastVars, v0Vars, compilerVars>>

LikeNext ==
    \/ BroadcastLike_base_ctor
    \/ BroadcastLike_ctor
    \/ BroadcastLike_replace_arg
    \/ BroadcastLike_replace_like_arg

SpecLike == LikeInit /\ [][LikeNext]_vars

-----------------------------------------------------------------------------
(* Properties of op::v0::BroadcastLike *)

\* BroadcastLike::infer_shape() has run on the node at least once.
LikeInferred == like.state \in {"ctor_failed", "valid", "invalid"}

\* The axes C10 names, for arg shape A and like_arg shape L (axes from 0).
LikeAxes(A, L) ==
    {i \in 0..(Len(L) - 1) : i >= Len(A)}
    \cup {i \in 0..(Len(L) - 1) : i < Len(A) /\ A[i + 1] = 1 /\ L[i + 1] > 1}

\* C10: with empty initial_broadcast_axes, after every shape inference of a
\* BroadcastLike the shape is like_arg's current shape and the broadcast axes
\* are those computed from the current arg and like_arg shapes alone.
C10_LikeAxesRecomputed ==
    (LikeInferred /\ like.m_initial_broadcast_axes = {}) =>
        /\ like.m_shape = like.like_arg
        /\ like.m_broadcast_axes = LikeAxes(like.arg, like.like_arg)

\* An inference call replaced non-empty axes of an earlier call by other
\* non-empty axes, dropping one of the earlier ones.
C10_Witness ==
    /\ like.state \in {"valid", "invalid"}
    /\ like.m_initial_broadcast_axes = {}
    /\ like.m_broadcast_axes # {}
    /\ like.prev_axes \ like.m_broadcast_axes # {}
    /\ \E i \in like.m_broadcast_axes : i < Len(like.arg)

-----------------------------------------------------------------------------
(* op::v0::Broadcast(arg, shape, broadcast_axes) *)

\* PartialShape::compatible(shape) for a static shape: a dynamic rank is
\* compatible with every shape, a dynamic dimension with every length;
\* otherwise ranks and lengths are equal.
compatible(ps, shape) ==
    \/ ps.rank_dynamic
    \/ /\ Len(ps.dims) = Len(shape)
       /\ \A i \in 1..Len(shape) : ps.dims[i] = Dynamic \/ ps.dims[i] = shape[i]

NoOutput == [set |-> FALSE]

\* Mutant of v0_Broadcast_validate_and_infer_types: the arg shape is not
\* compared with the required input shape.
v0_Broadcast_validate_and_infer_types_NoCompatible(n) ==
    LET b == v0_Broadcast_infer_shape(n)
    IN  IF \E axis \in b.m_broadcast_axes : ~(axis < Len(b.m_shape))
        THEN [b EXCEPT !.state = "failed",
                       !.error = "Broadcast axis index exceeds specified output shape rank"]
        ELSE [b EXCEPT !.state = "valid", !.error = "",
                       !.output = [set |-> TRUE, et |-> b.et, shape |-> b.m_shape]]

\* op::v0::Broadcast::validate_and_infer_types() on a v0 Broadcast node whose
\* input has element type n.et and partial shape n.arg.
v0_Broadcast_validate_and_infer_types(n) ==
    LET b == v0_Broadcast_infer_shape(n)
    IN  IF \E axis \in b.m_broadcast_axes : ~(axis < Len(b.m_shape))
        THEN [b EXCEPT !.state = "failed",
                       !.error = "Broadcast axis index exceeds specified output shape rank"]
        ELSE LET required_input_shape == EraseAxes(b.m_shape, b.m_broadcast_axes)
             IN  IF ~compatible(b.arg, required_input_shape)
                 THEN [b EXCEPT !.state = "failed",
                                !.error = "Broadcast argument shape, specified output shape, and axes are incompatible"]
                 ELSE [b EXCEPT !.state = "valid", !.error = "",
                                !.output = [set |-> TRUE, et |-> b.et,
                                            shape |-> b.m_shape]]

\* The node after the member initializers of the constructor.
v0_Node(et, arg, shape, broadcast_axes) ==
    [kind |-> "Broadcast", version |-> 0, state |-> "pending", error |-> "",
     et |-> et, arg |-> arg, m_shape |-> shape, m_broadcast_axes |-> broadcast_axes,
     output |-> NoOutput, clone |-> NoNode]

\* op::v0::Broadcast::clone_with_new_inputs(new_args): a new v0 Broadcast of
\* the first new input with the shape and axes of this node.
v0_clone_with_new_inputs(n, new_args) ==
    IF Len(new_args) # 1
    THEN [n EXCEPT !.clone = [kind |-> "Broadcast", state |-> "failed",
                              error |-> "clone_with_new_inputs() expected 1 argument"]]
    ELSE [n EXCEPT !.clone =
            v0_Broadcast_validate_and_infer_types(
                v0_Node(new_args[1].et, new_args[1].shape, n.m_shape,
                        n.m_broadcast_axes))]

\* Partial shapes of rank at most MaxRank, and the dynamic one.
PartialShapes ==
    {StaticRank(d) : d \in SeqsUpTo(DimValues \cup {Dynamic}, MaxRank)}
    \cup {DynamicShape}

ElementTypes == {"f32", "i64"}

V0Init ==
    /\ \E et \in ElementTypes, a \in PartialShapes, sh \in Shapes,
          ax \in SUBSET (0..MaxRank) :
          v0 = v0_Node(et, a, sh, ax)
    /\ node = NoNode
    /\ out = NoNode
    /\ prev = NoNode
    /\ cloned = NoNode
    /\ adjoints = NoNode
    /\ like = NoNode
    /\ pc = [t \in Threads |-> "idle"]
    /\ mlirInitMutex = 0
    /\ initialized = FALSE
    /\ initRuns = [i \in 1..Len(InitSteps) |-> 0]
    /\ initCallStart = [t \in Threads |-> FALSE]
    /\ hasCompiler = [t \in Threads |-> FALSE]
    /\ m_module = [t \in Threads |-> NullModule]
    /\ stages = [t \in Threads |-> << >>]

\* op::v0::Broadcast::Broadcast: constructor_validate_and_infer_types().
Construct_v0 ==
    /\ v0.state = "pending"
    /\ v0' = v0_Broadcast_validate_and_infer_types(v0)
    /\ UNCHANGED <<broadcastVars, likeVars, compilerVars>>

\* clone_with_new_inputs on a constructed node: with its own input, with an
\* input of the other element type and dynamic shape, or with two inputs.
Clone_v0 ==
    /\ v0.state = "valid"
    /\ v0.clone = NoNode
    /\ \E new_args \in {<<[et |-> v0.et, shape |-> v0.arg]>>,
                        <<[et |-> CHOOSE e \in ElementTypes : e # v0.et,
                           shape |-> DynamicShape]>>,
                        <<[et |-> v0.et, shape |-> v0.arg],
                          [et |-> v0.et, shape |-> v0.arg]>>} :
          v0' = v0_clone_with_new_inputs(v0, new_args)
    /\ UNCHANGED <<broadcastVars, likeVars, compilerVars>>

V0Next ==
    \/ Construct_v0
    \/ Clone_v0

SpecV0 == V0Init /\ [][V0Next]_vars

-----------------------------------------------------------------------------
(* Properties of op::v0::Broadcast *)

\* The shape with the dimensions at the axes (from 0) left out, from
\* position i (from 1) on.
RECURSIVE WithoutAxes(_, _, _)
WithoutAxes(shape, axes, i) ==
    IF i > Len(shape)
    THEN << >>
    ELSE (IF (i - 1) \in axes THEN << >> ELSE <<shape[i]>>)
            \o WithoutAxes(shape, axes, i + 1)

V0Acceptable(n) ==
    /\ \A axis \in n.m_broadcast_axes : axis < Len(n.m_shape)
    /\ LET rest == WithoutAxes(n.m_shape, n.m_broadcast_axes, 1)
       IN  \/ n.arg.rank_dynamic
           \/ /\ Len(n.arg.dims) = Len(rest)
              /\ \A i \in 1..Len(rest) : n.arg.dims[i] \in {Dynamic, rest[i]}

\* C17: validation of v0.Broadcast(arg, target_shape, broadcast_axes) succeeds
\* iff every axis is below rank(target_shape) and target_shape without those
\* axes is compatible with the arg's partial shape; on success the output
\* shape is target_shape and the output element type the arg's; otherwise
\* validation fails with an error and sets no output type.
C17_V0Validation ==
    v0.state \in {"valid", "failed"} =>
        IF V0Acceptable(v0)
        THEN /\ v0.state = "valid"
             /\ v0.output = [set |-> TRUE, et |-> v0.et, shape |-> v0.m_shape]
        ELSE /\ v0.state = "failed"
             /\ v0.error # ""
             /\ v0.output = NoOutput

\* A node with a broadcast axis was accepted for an arg of static rank with
\* a dynamic dimension, its output shape and type set.
C17_Witness ==
    /\ v0.state = "valid"
    /\ Cardinality(v0.m_broadcast_axes) >= 1
    /\ Len(v0.m_shape) > Cardinality(v0.m_broadcast_axes)
    /\ ~v0.arg.rank_dynamic
    /\ \E i \in 1..Len(v0.arg.dims) : v0.arg.dims[i] = Dynamic
    /\ v0.output = [set |-> TRUE, et |-> v0.et, shape |-> v0.m_shape]

\* A node whose axes are in range was rejected for its arg shape.
C17_WitnessRejected ==
    /\ v0.state = "failed"
    /\ \A axis \in v0.m_broadcast_axes : axis < Len(v0.m_shape)
    /\ v0.m_broadcast_axes # {}
    /\ Len(v0.arg.dims) = Len(v0.m_shape) - Cardinality(v0.m_broadcast_axes)

\* A clone of a v0 Broadcast from its own input is valid and has the shape,
\* axes and version of the original.
V0ClonePreservesAttributes ==
    (/\ v0.state = "valid"
     /\ v0.clone # NoNode
     /\ v0.clone.state # "failed" \/ v0.clone.error # "clone_with_new_inputs() expected 1 argument")
        => /\ v0.clone.m_shape = v0.m_shape
           /\ v0.clone.m_broadcast_axes = v0.m_broadcast_axes
           /\ v0.clone.version = v0.version
           /\ (v0.clone.arg = v0.arg => v0.clone.state = "valid")

====
